---- MODULE Spec2Model ----
(***************************************************************************)
(* Static analysis of a dFBA submodel's reaction network                   *)
(* (wc_analysis.model.fba.FbaModelAnalysis): dead end species, inactive    *)
(* reactions, their fixed point (get_rxn_gaps) and the bipartite digraph.  *)
(***************************************************************************)
EXTENDS Integers, Sequences, FiniteSets, TLC

\* ------------------------------------------------------------------ bounds
MaxSpecies == 3    \* species available to the arbitrary submodels
MaxRxns == 2       \* reactions of an arbitrary submodel
MaxParts == 2      \* participants of one reaction of an arbitrary submodel
MaxObj == 1        \* species the submodel reaches through its objective only
MaxRing == 5       \* reactions (= species) of a ring network
MaxIterations == 8 \* cap of the loop-body counter (never reached by the code)

\* ------------------------------------------------------------- data model
Coefficients == {-1, 0, 1}

\* the set of sequences over S of length at most n
RECURSIVE SeqsUpTo(_, _)
SeqsUpTo(S, n) ==
    IF n = 0 THEN {<<>>}
    ELSE LET shorter == SeqsUpTo(S, n - 1)
         IN  shorter \cup {Append(s, x) : s \in {t \in shorter : Len(t) = n - 1}, x \in S}

Range(s) == {s[i] : i \in DOMAIN s}

\* wc_lang.Reaction as the analysis reads it: identity, reversible flag, participants
Reaction(id, reversible, participants) ==
    [id |-> id, reversible |-> reversible, participants |-> participants]

\* wc_lang.SpeciesCoefficient: species and signed coefficient
Participant(species, coefficient) == [species |-> species, coefficient |-> coefficient]

RxnIds(sm) == {sm.reactions[i].id : i \in DOMAIN sm.reactions}

RxnById(sm, id) == CHOOSE r \in Range(sm.reactions) : r.id = id

PartSpecies(rxn) == {rxn.participants[k].species : k \in DOMAIN rxn.participants}

\* submodel.get_children(kind='submodel', __type=wc_lang.Species): the species the
\* submodel reaches through its reactions' participants and through its objective
SubmodelSpecies(sm) ==
    UNION {PartSpecies(sm.reactions[i]) : i \in DOMAIN sm.reactions} \cup sm.obj

\* --------------------------------------------------- get_dead_end_species
\* mutant: a product is discarded from the not-consumed set
RECURSIVE DiscardParticipants_ConsumedOnly(_, _, _)
DiscardParticipants_ConsumedOnly(rxn, k, dead) ==
    IF k > Len(rxn.participants) THEN dead
    ELSE LET part == rxn.participants[k]
             nc == dead[1]
             np == dead[2]
         IN  IF rxn.reversible
             THEN DiscardParticipants_ConsumedOnly(rxn, k + 1,
                      <<nc \ {part.species}, np \ {part.species}>>)
             ELSE IF part.coefficient < 0
                  THEN DiscardParticipants_ConsumedOnly(rxn, k + 1,
                           <<nc \ {part.species}, np>>)
                  ELSE IF 0 < part.coefficient
                       THEN DiscardParticipants_ConsumedOnly(rxn, k + 1,
                                <<nc \ {part.species}, np>>)
                       ELSE DiscardParticipants_ConsumedOnly(rxn, k + 1, dead)

\* mutant: a reversible reaction is treated like an irreversible one
RECURSIVE DiscardParticipants_IgnoreReversible(_, _, _)
DiscardParticipants_IgnoreReversible(rxn, k, dead) ==
    IF k > Len(rxn.participants) THEN dead
    ELSE LET part == rxn.participants[k]
             nc == dead[1]
             np == dead[2]
         IN  IF part.coefficient < 0
             THEN DiscardParticipants_IgnoreReversible(rxn, k + 1,
                      <<nc \ {part.species}, np>>)
             ELSE IF 0 < part.coefficient
                  THEN DiscardParticipants_IgnoreReversible(rxn, k + 1,
                           <<nc, np \ {part.species}>>)
                  ELSE DiscardParticipants_IgnoreReversible(rxn, k + 1, dead)

\* the loop over rxn.participants of a rxn that is not inactive, from participant k on
RECURSIVE DiscardParticipants(_, _, _)
DiscardParticipants(rxn, k, dead) ==
    IF k > Len(rxn.participants) THEN dead
    ELSE LET part == rxn.participants[k]
             nc == dead[1]
             np == dead[2]
         IN  IF rxn.reversible
             THEN DiscardParticipants(rxn, k + 1,
                      <<nc \ {part.species}, np \ {part.species}>>)
             ELSE IF part.coefficient < 0
                  THEN DiscardParticipants(rxn, k + 1, <<nc \ {part.species}, np>>)
                  ELSE IF 0 < part.coefficient
                       THEN DiscardParticipants(rxn, k + 1, <<nc, np \ {part.species}>>)
                       ELSE DiscardParticipants(rxn, k + 1, dead)

\* the loop over submodel.reactions, from reaction i on
RECURSIVE DeadEndLoop(_, _, _, _)
DeadEndLoop(sm, inactive, i, dead) ==
    IF i > Len(sm.reactions) THEN dead
    ELSE LET rxn == sm.reactions[i]
         IN  IF rxn.id \in inactive
             THEN DeadEndLoop(sm, inactive, i + 1, dead)
             ELSE DeadEndLoop(sm, inactive, i + 1, DiscardParticipants(rxn, 1, dead))

get_dead_end_species(sm, inactive) ==
    DeadEndLoop(sm, inactive, 1, <<SubmodelSpecies(sm), SubmodelSpecies(sm)>>)

\* ------------------------------------------------------- get_inactive_rxns
\* mutant: only the not-consumed set is looked at
RECURSIVE TouchesDeadEnd_NotConsumedOnly(_, _, _)
TouchesDeadEnd_NotConsumedOnly(rxn, k, dead) ==
    IF k > Len(rxn.participants) THEN FALSE
    ELSE IF rxn.participants[k].species \in dead[1]
         THEN TRUE
         ELSE TouchesDeadEnd_NotConsumedOnly(rxn, k + 1, dead)

\* the inner loop with its break: does a participant from k on touch a dead end species
RECURSIVE TouchesDeadEnd(_, _, _)
TouchesDeadEnd(rxn, k, dead) ==
    IF k > Len(rxn.participants) THEN FALSE
    ELSE IF rxn.participants[k].species \in dead[1]
            \/ rxn.participants[k].species \in dead[2]
         THEN TRUE
         ELSE TouchesDeadEnd(rxn, k + 1, dead)

\* mutant: no break, the reaction is appended once for every matching participant
RECURSIVE AppendPerMatch(_, _, _, _)
AppendPerMatch(rxn, k, dead, acc) ==
    IF k > Len(rxn.participants) THEN acc
    ELSE IF rxn.participants[k].species \in dead[1]
            \/ rxn.participants[k].species \in dead[2]
         THEN AppendPerMatch(rxn, k + 1, dead, Append(acc, rxn.id))
         ELSE AppendPerMatch(rxn, k + 1, dead, acc)

RECURSIVE InactiveLoop_NoBreak(_, _, _, _)
InactiveLoop_NoBreak(sm, dead, i, acc) ==
    IF i > Len(sm.reactions) THEN acc
    ELSE InactiveLoop_NoBreak(sm, dead, i + 1, AppendPerMatch(sm.reactions[i], 1, dead, acc))

\* the loop over submodel.reactions, from reaction i on
RECURSIVE InactiveLoop(_, _, _, _)
InactiveLoop(sm, dead, i, acc) ==
    IF i > Len(sm.reactions) THEN acc
    ELSE IF TouchesDeadEnd(sm.reactions[i], 1, dead)
         THEN InactiveLoop(sm, dead, i + 1, Append(acc, sm.reactions[i].id))
         ELSE InactiveLoop(sm, dead, i + 1, acc)

get_inactive_rxns(sm, dead) == InactiveLoop(sm, dead, 1, <<>>)

\* -------------------------------------------------------------- get_digraph
SpeciesNode(s) == <<"Species", s>>

ReactionNode(id) == <<"Reaction", id>>

\* networkx.DiGraph(): node set and edge set; adding twice changes nothing
EmptyDiGraph == [nodes |-> {}, edges |-> {}]

add_node(g, n) == [g EXCEPT !.nodes = @ \cup {n}]

add_edge(g, u, v) == [nodes |-> g.nodes \cup {u, v}, edges |-> g.edges \cup {<<u, v>>}]

\* first loop over rxn.participants: forward edges, from participant k on
RECURSIVE ForwardEdges(_, _, _)
ForwardEdges(rxn, k, g) ==
    IF k > Len(rxn.participants) THEN g
    ELSE LET participant == rxn.participants[k]
             part == SpeciesNode(participant.species)
         IN  IF participant.coefficient < 0
             THEN ForwardEdges(rxn, k + 1, add_edge(g, part, ReactionNode(rxn.id)))
             ELSE IF 0 < participant.coefficient
                  THEN ForwardEdges(rxn, k + 1, add_edge(g, ReactionNode(rxn.id), part))
                  ELSE ForwardEdges(rxn, k + 1, g)

\* mutant: the second loop repeats the first, its edges are not swapped
RECURSIVE MirrorEdges_NotSwapped(_, _, _)
MirrorEdges_NotSwapped(rxn, k, g) ==
    IF k > Len(rxn.participants) THEN g
    ELSE LET participant == rxn.participants[k]
             part == SpeciesNode(participant.species)
         IN  IF participant.coefficient < 0
             THEN MirrorEdges_NotSwapped(rxn, k + 1, add_edge(g, part, ReactionNode(rxn.id)))
             ELSE IF 0 < participant.coefficient
                  THEN MirrorEdges_NotSwapped(rxn, k + 1,
                           add_edge(g, ReactionNode(rxn.id), part))
                  ELSE MirrorEdges_NotSwapped(rxn, k + 1, g)

\* second loop over rxn.participants, run for a reversible rxn: mirror edges
RECURSIVE MirrorEdges(_, _, _)
MirrorEdges(rxn, k, g) ==
    IF k > Len(rxn.participants) THEN g
    ELSE LET participant == rxn.participants[k]
             part == SpeciesNode(participant.species)
         IN  IF participant.coefficient < 0
             THEN MirrorEdges(rxn, k + 1, add_edge(g, ReactionNode(rxn.id), part))
             ELSE IF 0 < participant.coefficient
                  THEN MirrorEdges(rxn, k + 1, add_edge(g, part, ReactionNode(rxn.id)))
                  ELSE MirrorEdges(rxn, k + 1, g)

\* mutant: a reversible reaction gets its forward edges only
RECURSIVE DiGraphLoop_NoMirror(_, _, _)
DiGraphLoop_NoMirror(sm, i, g) ==
    IF i > Len(sm.reactions) THEN g
    ELSE LET rxn == sm.reactions[i]
             fwd == ForwardEdges(rxn, 1, add_node(g, ReactionNode(rxn.id)))
         IN  DiGraphLoop_NoMirror(sm, i + 1, fwd)

\* the loop over submodel.reactions, from reaction i on
RECURSIVE DiGraphLoop(_, _, _)
DiGraphLoop(sm, i, g) ==
    IF i > Len(sm.reactions) THEN g
    ELSE LET rxn == sm.reactions[i]
             fwd == ForwardEdges(rxn, 1, add_node(g, ReactionNode(rxn.id)))
         IN  IF rxn.reversible
             THEN DiGraphLoop(sm, i + 1, MirrorEdges(rxn, 1, fwd))
             ELSE DiGraphLoop(sm, i + 1, fwd)

get_digraph(sm) ==
    DiGraphLoop(sm, 1,
        [nodes |-> {SpeciesNode(s) : s \in SubmodelSpecies(sm)}, edges |-> {}])

\* ------------------------------------------------------------ the networks
\* an arbitrary submodel: reactions numbered in list order, any participants
ParticipantLists ==
    SeqsUpTo({Participant(s, c) : s \in 1..MaxSpecies, c \in Coefficients}, MaxParts)

ReactionShapes == [reversible : BOOLEAN, participants : ParticipantLists]

Submodels ==
    {[reactions |-> [i \in DOMAIN shapes |->
                        Reaction(i, shapes[i].reversible, shapes[i].participants)],
      obj |-> o] :
        shapes \in SeqsUpTo(ReactionShapes, MaxRxns),
        o \in {x \in SUBSET (1..MaxSpecies) : Cardinality(x) <= MaxObj}}

\* the test's make_reaction: one reactant, one product
make_reaction(id, reactant, product, reversible) ==
    Reaction(id, reversible, <<Participant(reactant, -1), Participant(product, 1)>>)

\* the test's create_reaction_network(submodel, 'ring', num_rxn, reversible)
create_reaction_network(num_rxn, reversible) ==
    [reactions |-> [i \in 1..num_rxn |->
                       make_reaction(i, i, (i % num_rxn) + 1, reversible)],
     obj |-> {}]

\* del submodel.reactions[k]
RemoveAt(s, k) == [i \in 1..(Len(s) - 1) |-> IF i < k THEN s[i] ELSE s[i + 1]]

del_reaction(sm, k) == [sm EXCEPT !.reactions = RemoveAt(@, k)]

\* --------------------------------------------------------- values and flux
\* a wc_lang.Species object, and values that are no Species
Species(id) == [type |-> "Species", id |-> id]

StrValue == [type |-> "str", id |-> 0]

NoneValue == [type |-> "NoneType", id |-> 0]

\* isinstance(v, wc_lang.Species)
isinstance_Species(v) == v.type = "Species"

\* rxn.flux_bounds: None, or an object whose max is a number or infinity
NoFluxBounds == [kind |-> "none", max |-> 0]

Finite(b) == [kind |-> "finite", max |-> b]

Infinite == [kind |-> "inf", max |-> 0]

\* the default of unbounded_paths' min_non_finite_ub
DefaultMinNonFiniteUb == 1000

\* the tests' default_max_flux
default_max_flux == 10000

NoException == [type |-> "none", name |-> "none"]

ValueError(name) == [type |-> "ValueError", name |-> name]

\* an AnalysisRunner that has no analyses
NoRunner == [analyses |-> <<>>, out_path |-> FALSE, i |-> 0,
             constructed |-> <<>>, ran |-> <<>>, dirs |-> {}]

\* ---------------------------------------------------------- unbounded_paths
\* iteration over a set: the DiGraph of this model keeps no insertion order, so
\* one fixed order stands for the order in which networkx iterates
RECURSIVE SetToSeq(_)
SetToSeq(S) ==
    IF S = {} THEN <<>>
    ELSE LET x == CHOOSE y \in S : TRUE
         IN  <<x>> \o SetToSeq(S \ {x})

\* G[n]: the successors of node n
Successors(g, n) == SetToSeq({e[2] : e \in {d \in g.edges : d[1] = n}})

\* mutant: the search stops at the first path it finds
RECURSIVE PathsFrom_FirstOnly(_, _, _, _)
PathsFrom_FirstOnly(g, visited, children, target) ==
    IF children = <<>> THEN <<>>
    ELSE LET child == Head(children)
         IN  IF child = target
             THEN <<Append(visited, target)>>
             ELSE IF child \notin Range(visited)
                  THEN LET below == PathsFrom_FirstOnly(g, Append(visited, child),
                                                        Successors(g, child), target)
                       IN  IF below # <<>> THEN below
                           ELSE PathsFrom_FirstOnly(g, visited, Tail(children), target)
                  ELSE PathsFrom_FirstOnly(g, visited, Tail(children), target)

\* mutant: a node already on the path may be entered again, as long as the path
\* has fewer nodes than the graph
RECURSIVE PathsFrom_Revisit(_, _, _, _)
PathsFrom_Revisit(g, visited, children, target) ==
    IF children = <<>> THEN <<>>
    ELSE LET child == Head(children)
             rest == PathsFrom_Revisit(g, visited, Tail(children), target)
         IN  IF child = target
             THEN <<Append(visited, target)>> \o rest
             ELSE IF Len(visited) + 1 < Cardinality(g.nodes)
                  THEN PathsFrom_Revisit(g, Append(visited, child),
                                         Successors(g, child), target) \o rest
                  ELSE rest

\* networkx's depth-first search: `visited` is the path so far, `children` what
\* is left of the successors of its last node; the paths in the order found
RECURSIVE PathsFrom(_, _, _, _)
PathsFrom(g, visited, children, target) ==
    IF children = <<>> THEN <<>>
    ELSE LET child == Head(children)
             rest == PathsFrom(g, visited, Tail(children), target)
         IN  IF child = target
             THEN <<Append(visited, target)>> \o rest
             ELSE IF child \notin Range(visited)
                  THEN PathsFrom(g, Append(visited, child),
                                 Successors(g, child), target) \o rest
                  ELSE rest

\* networkx.all_simple_paths(g, source, target) for two different nodes of g
all_simple_paths(g, source, target) ==
    PathsFrom(g, <<source>>, Successors(g, source), target)

\* mutant: a bound equal to the threshold bounds the path too
BoundsPath_OrEqual(bounds, ub) == bounds.kind = "finite" /\ bounds.max <= ub

\* rxn.flux_bounds and rxn.flux_bounds.max < min_non_finite_ub
BoundsPath(bounds, ub) == bounds.kind = "finite" /\ bounds.max < ub

\* the loop `for i in range(1, len(path), 2)` from index i on (i counts from 0):
\* does some reaction of the path carry a bound below ub
RECURSIVE IsBounded(_, _, _, _)
IsBounded(path, i, fb, ub) ==
    IF i >= Len(path) THEN FALSE
    ELSE LET rxn == path[i + 1]
         IN  IF BoundsPath(fb[rxn[2]], ub) THEN TRUE
             ELSE IsBounded(path, i + 2, fb, ub)

\* mutant: the bounded paths are the ones kept
UnboundedPathsTo_KeepBounded(g, fb, source, of_specie, ub) ==
    SelectSeq(all_simple_paths(g, SpeciesNode(source.id), SpeciesNode(of_specie.id)),
              LAMBDA path : IsBounded(path, 1, fb, ub))

\* the body of the loop over obj_fn_species for one Species target: the
\* unbounded ones of the simple paths to it
UnboundedPathsTo(g, fb, source, of_specie, ub) ==
    SelectSeq(all_simple_paths(g, SpeciesNode(source.id), SpeciesNode(of_specie.id)),
              LAMBDA path : ~IsBounded(path, 1, fb, ub))

\* the loop over obj_fn_species from position k on, all of them Species
RECURSIVE UnboundedPathsLoop(_, _, _, _, _, _, _)
UnboundedPathsLoop(g, fb, source, targets, k, ub, acc) ==
    IF k > Len(targets) THEN acc
    ELSE UnboundedPathsLoop(g, fb, source, targets, k + 1, ub,
             acc \o UnboundedPathsTo(g, fb, source, targets[k], ub))

\* ------------------------------------------------------------------- state
VARIABLES
    submodel,                \* the submodel under analysis
    network,                 \* how the submodel was made: any, or a ring (size, removed reaction)
    pc,                      \* "idle", "while" (inside get_rxn_gaps), "done"
    op,                      \* the operation called
    all_dead_end_species,    \* get_rxn_gaps local
    delta_dead_end_species,  \* get_rxn_gaps local
    inactive_reactions,      \* get_rxn_gaps local (a list once the loop has run)
    iterations,              \* executions of the while-loop body so far
    inactive_arg,            \* argument of a direct get_dead_end_species call
    dead_end_arg,            \* argument of a direct get_inactive_rxns call
    dead_end_ret,            \* result of a direct get_dead_end_species call
    inactive_ret,            \* result of a direct get_inactive_rxns call
    digraph,                 \* result of get_digraph
    flux_bounds,             \* reaction id -> the reaction's flux bounds
    compartment,             \* species -> the id of its compartment
    ex_species,              \* unbounded_paths argument: the source
    obj_fn_species,          \* unbounded_paths argument: the list of targets
    min_non_finite_ub,       \* unbounded_paths argument: the threshold
    of_i,                    \* unbounded_paths: position of the for loop over obj_fn_species
    unbounded_paths,         \* unbounded_paths local: the paths found so far
    enumerations,            \* number of networkx.all_simple_paths calls made
    all_unbounded_paths,     \* result of path_bounds_analysis
    runner,                  \* the AnalysisRunner and what its run() has done
    raised                   \* the exception the operation raised, if any

vars == <<submodel, network, pc, op, all_dead_end_species, delta_dead_end_species,
          inactive_reactions, iterations, inactive_arg, dead_end_arg, dead_end_ret,
          inactive_ret, digraph, flux_bounds, compartment, ex_species, obj_fn_species,
          min_non_finite_ub, of_i, unbounded_paths, enumerations, all_unbounded_paths,
          runner, raised>>

gapsVars == <<all_dead_end_species, delta_dead_end_species, inactive_reactions, iterations>>

callVars == <<inactive_arg, dead_end_arg, dead_end_ret, inactive_ret, digraph>>

modelVars == <<flux_bounds, compartment>>

pathVars == <<ex_species, obj_fn_species, min_non_finite_ub, of_i, unbounded_paths,
              enumerations, all_unbounded_paths>>

\* what the gap and digraph operations neither read nor write
otherVars == <<modelVars, pathVars, runner, raised>>

InitLocals ==
    /\ pc = "idle"
    /\ op = "none"
    /\ all_dead_end_species = <<{}, {}>>
    /\ delta_dead_end_species = <<{}, {}>>
    /\ inactive_reactions = <<>>
    /\ iterations = 0
    /\ inactive_arg = {}
    /\ dead_end_arg = <<{}, {}>>
    /\ dead_end_ret = <<{}, {}>>
    /\ inactive_ret = <<>>
    /\ digraph = EmptyDiGraph
    /\ ex_species = NoneValue
    /\ obj_fn_species = <<>>
    /\ min_non_finite_ub = DefaultMinNonFiniteUb
    /\ of_i = 0
    /\ unbounded_paths = <<>>
    /\ enumerations = 0
    /\ all_unbounded_paths = <<>>
    /\ raised = NoException

\* the tests' networks: make_reaction's default max_flux on every reaction, no
\* extracellular species; no analysis runner
InitModelDefaults ==
    /\ flux_bounds = [id \in RxnIds(submodel) |-> Finite(default_max_flux)]
    /\ compartment = [s \in SubmodelSpecies(submodel) |-> "c"]
    /\ runner = NoRunner

InitAny ==
    /\ submodel \in Submodels
    /\ network = [type |-> "any", num_rxn |-> 0, reversible |-> FALSE, removed |-> 0]
    /\ InitModelDefaults
    /\ InitLocals

\* a ring of num_rxn reactions, whole (removed = 0) or with reaction `removed` deleted
InitRing ==
    /\ \E n \in 1..MaxRing, rev \in BOOLEAN, k \in 0..MaxRing :
          /\ k <= n
          /\ network = [type |-> "ring", num_rxn |-> n, reversible |-> rev, removed |-> k]
          /\ submodel = IF k = 0 THEN create_reaction_network(n, rev)
                        ELSE del_reaction(create_reaction_network(n, rev), k)
    /\ InitModelDefaults
    /\ InitLocals

Init == InitAny \/ InitRing

\* the species a caller can name
Universe == IF network.type = "ring" THEN 1..network.num_rxn ELSE 1..MaxSpecies

\* the reactions a caller can name
ReactionUniverse == IF network.type = "ring" THEN 1..network.num_rxn ELSE 1..MaxRxns

\* ------------------------------------------------------------ get_rxn_gaps
\* Python's any() over the pair of sets: some set of the pair is non-empty
any(pair) == pair[1] # {} \/ pair[2] # {}

\* lines before the loop
GapsStart ==
    /\ pc = "idle"
    /\ pc' = "while"
    /\ op' = "get_rxn_gaps"
    /\ all_dead_end_species' = get_dead_end_species(submodel, {})
    /\ delta_dead_end_species' = all_dead_end_species'
    /\ inactive_reactions' = <<>>
    /\ UNCHANGED <<otherVars, submodel, network, iterations, callVars>>

\* mutant: the inactive reactions are computed from the newly found dead end
\* species only
GapsIterate_FromDelta ==
    /\ pc = "while"
    /\ any(delta_dead_end_species)
    /\ iterations < MaxIterations
    /\ LET inactive == get_inactive_rxns(submodel, delta_dead_end_species)
           tmp_not_consumed == all_dead_end_species[1]
           tmp_not_produced == all_dead_end_species[2]
           new == get_dead_end_species(submodel, Range(inactive))
       IN  /\ inactive_reactions' = inactive
           /\ all_dead_end_species' = new
           /\ delta_dead_end_species' =
                  <<new[1] \ tmp_not_consumed, new[2] \ tmp_not_produced>>
    /\ iterations' = iterations + 1
    /\ UNCHANGED <<otherVars, submodel, network, pc, op, callVars>>

\* mutant: delta is the whole new pair, not what is new in it
GapsIterate_NoDifference ==
    /\ pc = "while"
    /\ any(delta_dead_end_species)
    /\ iterations < MaxIterations
    /\ LET inactive == get_inactive_rxns(submodel, all_dead_end_species)
           new == get_dead_end_species(submodel, Range(inactive))
       IN  /\ inactive_reactions' = inactive
           /\ all_dead_end_species' = new
           /\ delta_dead_end_species' = new
    /\ iterations' = iterations + 1
    /\ UNCHANGED <<otherVars, submodel, network, pc, op, callVars>>

\* mutant: the difference is taken on the not-consumed side only
GapsIterate_HalfDifference ==
    /\ pc = "while"
    /\ any(delta_dead_end_species)
    /\ iterations < MaxIterations
    /\ LET inactive == get_inactive_rxns(submodel, all_dead_end_species)
           tmp_not_consumed == all_dead_end_species[1]
           new == get_dead_end_species(submodel, Range(inactive))
       IN  /\ inactive_reactions' = inactive
           /\ all_dead_end_species' = new
           /\ delta_dead_end_species' = <<new[1] \ tmp_not_consumed, new[2]>>
    /\ iterations' = iterations + 1
    /\ UNCHANGED <<otherVars, submodel, network, pc, op, callVars>>

\* mutant: the difference is taken the wrong way round
GapsIterate_SwappedDifference ==
    /\ pc = "while"
    /\ any(delta_dead_end_species)
    /\ iterations < MaxIterations
    /\ LET inactive == get_inactive_rxns(submodel, all_dead_end_species)
           tmp_not_consumed == all_dead_end_species[1]
           tmp_not_produced == all_dead_end_species[2]
           new == get_dead_end_species(submodel, Range(inactive))
       IN  /\ inactive_reactions' = inactive
           /\ all_dead_end_species' = new
           /\ delta_dead_end_species' =
                  <<tmp_not_consumed \ new[1], tmp_not_produced \ new[2]>>
    /\ iterations' = iterations + 1
    /\ UNCHANGED <<otherVars, submodel, network, pc, op, callVars>>

\* one execution of the loop body
GapsIterate ==
    /\ pc = "while"
    /\ any(delta_dead_end_species)
    /\ iterations < MaxIterations
    /\ LET inactive == get_inactive_rxns(submodel, all_dead_end_species)
           tmp_not_consumed == all_dead_end_species[1]
           tmp_not_produced == all_dead_end_species[2]
           new == get_dead_end_species(submodel, Range(inactive))
       IN  /\ inactive_reactions' = inactive
           /\ all_dead_end_species' = new
           /\ delta_dead_end_species' =
                  <<new[1] \ tmp_not_consumed, new[2] \ tmp_not_produced>>
    /\ iterations' = iterations + 1
    /\ UNCHANGED <<otherVars, submodel, network, pc, op, callVars>>

\* mutant: the loop is left whether or not the last pass found something new
GapsReturn_Early ==
    /\ pc = "while"
    /\ pc' = "done"
    /\ UNCHANGED <<otherVars, submodel, network, op, gapsVars, callVars>>

\* the loop condition fails: return (all_dead_end_species, inactive_reactions)
GapsReturn ==
    /\ pc = "while"
    /\ ~any(delta_dead_end_species)
    /\ pc' = "done"
    /\ UNCHANGED <<otherVars, submodel, network, op, gapsVars, callVars>>

NextGaps == GapsStart \/ GapsIterate \/ GapsReturn

\* ------------------------------------------ direct calls of the operations
CallGetDeadEndSpecies ==
    /\ pc = "idle"
    /\ \E inactive \in SUBSET ReactionUniverse :
          /\ inactive_arg' = inactive
          /\ dead_end_ret' = get_dead_end_species(submodel, inactive)
    /\ pc' = "done"
    /\ op' = "get_dead_end_species"
    /\ UNCHANGED <<otherVars, submodel, network, gapsVars, dead_end_arg, inactive_ret, digraph>>

CallGetInactiveRxns ==
    /\ pc = "idle"
    /\ \E nc \in SUBSET Universe, np \in SUBSET Universe :
          /\ dead_end_arg' = <<nc, np>>
          /\ inactive_ret' = get_inactive_rxns(submodel, <<nc, np>>)
    /\ pc' = "done"
    /\ op' = "get_inactive_rxns"
    /\ UNCHANGED <<otherVars, submodel, network, gapsVars, inactive_arg, dead_end_ret, digraph>>

CallGetDigraph ==
    /\ pc = "idle"
    /\ digraph' = get_digraph(submodel)
    /\ pc' = "done"
    /\ op' = "get_digraph"
    /\ UNCHANGED <<otherVars, submodel, network, gapsVars, inactive_arg, dead_end_arg,
                   dead_end_ret, inactive_ret>>

NextCalls == CallGetDeadEndSpecies \/ CallGetInactiveRxns \/ CallGetDigraph

Next == NextGaps \/ NextCalls

\* every operation on every network
Spec == Init /\ [][Next]_vars

\* get_rxn_gaps alone; once called it runs to its return
SpecGaps == Init /\ [][NextGaps]_vars

\* the networks whose species all come from reactions (no objective-only species)
InitReactionsOnly == Init /\ submodel.obj = {}

\* a call is single-threaded straight-line code: its next statement is executed
FairGaps == InitReactionsOnly /\ [][NextGaps]_vars /\ WF_vars(NextGaps)

\* one direct call of one operation
SpecDeadEnd == Init /\ [][CallGetDeadEndSpecies]_vars

SpecInactive == Init /\ [][CallGetInactiveRxns]_vars

SpecDigraph == Init /\ [][CallGetDigraph]_vars

\* every operation on the ring networks of the tests
SpecRing == InitRing /\ [][Next]_vars

\* ---------------------------------------------------------- unbounded_paths
MaxTargets == 2

\* the flux bounds a reaction can carry: none, the tests' 0, one at the default
\* threshold, infinity
FluxBoundValues == {NoFluxBounds, Finite(0), Finite(DefaultMinNonFiniteUb), Infinite}

\* the thresholds a caller passes: the default, and the tests' default_max_flux + 1
Thresholds == {DefaultMinNonFiniteUb, default_max_flux + 1}

\* networks of reactions made by the tests' make_reaction, any reactant and product
MadeSubmodels ==
    {[reactions |-> [i \in DOMAIN c |-> make_reaction(i, c[i][1], c[i][2], c[i][3])],
      obj |-> o] :
        c \in SeqsUpTo((1..MaxSpecies) \X (1..MaxSpecies) \X BOOLEAN, MaxRxns),
        o \in {x \in SUBSET (1..MaxSpecies) : Cardinality(x) <= MaxObj}}

\* a made network without objective, any flux bounds on its reactions
InitPaths ==
    /\ submodel \in {sm \in MadeSubmodels : sm.obj = {}}
    /\ network = [type |-> "any", num_rxn |-> 0, reversible |-> FALSE, removed |-> 0]
    /\ flux_bounds \in [RxnIds(submodel) -> FluxBoundValues]
    /\ compartment = [s \in SubmodelSpecies(submodel) |-> "c"]
    /\ runner = NoRunner
    /\ InitLocals

\* a whole ring whose reactions all have max_flux infinity, or all default_max_flux
InitPathsRing ==
    /\ \E n \in 1..MaxRing, rev \in BOOLEAN, max_flux \in {Infinite, Finite(default_max_flux)} :
          /\ network = [type |-> "ring", num_rxn |-> n, reversible |-> rev, removed |-> 0]
          /\ submodel = create_reaction_network(n, rev)
          /\ flux_bounds = [id \in 1..n |-> max_flux]
    /\ compartment = [s \in SubmodelSpecies(submodel) |-> "c"]
    /\ runner = NoRunner
    /\ InitLocals

\* what a caller can pass for a species: a species of the network, or no Species
ArgumentValues == {Species(s) : s \in SubmodelSpecies(submodel)} \cup {StrValue, NoneValue}

\* the call, up to the loop: rxn_network is the digraph of the submodel, the
\* source and the targets that are Species are different nodes of it
UnboundedPathsStart ==
    /\ pc = "idle"
    /\ op' = "unbounded_paths"
    /\ digraph' = get_digraph(submodel)
    /\ \E source \in ArgumentValues, targets \in SeqsUpTo(ArgumentValues, MaxTargets),
          ub \in Thresholds :
          /\ source \notin Range(targets)
          /\ ex_species' = source
          /\ obj_fn_species' = targets
          /\ min_non_finite_ub' = ub
    /\ unbounded_paths' = <<>>
    /\ IF ~isinstance_Species(ex_species')
       THEN /\ raised' = ValueError(ex_species'.type)
            /\ pc' = "raised"
            /\ UNCHANGED of_i
       ELSE /\ of_i' = 1
            /\ pc' = "paths_for"
            /\ UNCHANGED raised
    /\ UNCHANGED <<submodel, network, gapsVars, inactive_arg, dead_end_arg, dead_end_ret,
                   inactive_ret, modelVars, enumerations, all_unbounded_paths, runner>>

\* mutant: an element that is no Species is passed over
UnboundedPathsTarget_SkipNonSpecies ==
    /\ pc = "paths_for"
    /\ of_i <= Len(obj_fn_species)
    /\ LET of_specie == obj_fn_species[of_i]
       IN  IF ~isinstance_Species(of_specie)
           THEN /\ of_i' = of_i + 1
                /\ UNCHANGED <<pc, raised, unbounded_paths, enumerations>>
           ELSE /\ enumerations' = enumerations + 1
                /\ unbounded_paths' = unbounded_paths \o
                       UnboundedPathsTo(digraph, flux_bounds, ex_species, of_specie,
                                        min_non_finite_ub)
                /\ of_i' = of_i + 1
                /\ UNCHANGED <<pc, raised>>
    /\ UNCHANGED <<submodel, network, op, gapsVars, callVars, modelVars, ex_species,
                   obj_fn_species, min_non_finite_ub, all_unbounded_paths, runner>>

\* mutant: the paths to a target are put in front of those found before
UnboundedPathsTarget_Prepend ==
    /\ pc = "paths_for"
    /\ of_i <= Len(obj_fn_species)
    /\ LET of_specie == obj_fn_species[of_i]
       IN  IF ~isinstance_Species(of_specie)
           THEN /\ raised' = ValueError(of_specie.type)
                /\ pc' = "raised"
                /\ UNCHANGED <<of_i, unbounded_paths, enumerations>>
           ELSE /\ enumerations' = enumerations + 1
                /\ unbounded_paths' =
                       UnboundedPathsTo(digraph, flux_bounds, ex_species, of_specie,
                                        min_non_finite_ub) \o unbounded_paths
                /\ of_i' = of_i + 1
                /\ UNCHANGED <<pc, raised>>
    /\ UNCHANGED <<submodel, network, op, gapsVars, callVars, modelVars, ex_species,
                   obj_fn_species, min_non_finite_ub, all_unbounded_paths, runner>>

\* one pass of the loop over obj_fn_species: the type test of the element, then
\* the enumeration of the paths to it
UnboundedPathsTarget ==
    /\ pc = "paths_for"
    /\ of_i <= Len(obj_fn_species)
    /\ LET of_specie == obj_fn_species[of_i]
       IN  IF ~isinstance_Species(of_specie)
           THEN /\ raised' = ValueError(of_specie.type)
                /\ pc' = "raised"
                /\ UNCHANGED <<of_i, unbounded_paths, enumerations>>
           ELSE /\ enumerations' = enumerations + 1
                /\ unbounded_paths' = unbounded_paths \o
                       UnboundedPathsTo(digraph, flux_bounds, ex_species, of_specie,
                                        min_non_finite_ub)
                /\ of_i' = of_i + 1
                /\ UNCHANGED <<pc, raised>>
    /\ UNCHANGED <<submodel, network, op, gapsVars, callVars, modelVars, ex_species,
                   obj_fn_species, min_non_finite_ub, all_unbounded_paths, runner>>

\* the loop is over: return unbounded_paths
UnboundedPathsReturn ==
    /\ pc = "paths_for"
    /\ of_i > Len(obj_fn_species)
    /\ pc' = "done"
    /\ UNCHANGED <<submodel, network, op, gapsVars, callVars, modelVars, pathVars,
                   runner, raised>>

NextPaths == UnboundedPathsStart \/ UnboundedPathsTarget \/ UnboundedPathsReturn

\* one call of unbounded_paths on a made network
SpecPaths == InitPaths /\ [][NextPaths]_vars

\* one call of unbounded_paths on a ring of the tests
SpecPathsRing == InitPathsRing /\ [][NextPaths]_vars

\* ------------------------------------------------------ path_bounds_analysis
\* config['EXTRACELLULAR_COMPARTMENT_ID'], and any other compartment
CompartmentIds == {"e", "c"}

\* submodel.dfba_obj.get_products(): the species of the objective, as a list
get_products(sm) == SetToSeq({Species(sp) : sp \in sm.obj})

\* unbounded_paths called with Species arguments and the default threshold
unbounded_paths_of(g, fb, source, targets) ==
    UnboundedPathsLoop(g, fb, source, targets, 1, DefaultMinNonFiniteUb, <<>>)

\* mutant: a species without unbounded path gets no entry
RECURSIVE PathBoundsLoop_DropEmpty(_, _, _, _, _, _)
PathBoundsLoop_DropEmpty(g, fb, ex, k, targets, all) ==
    IF k > Len(ex) THEN all
    ELSE LET paths == unbounded_paths_of(g, fb, Species(ex[k]), targets)
         IN  PathBoundsLoop_DropEmpty(g, fb, ex, k + 1, targets,
                 IF paths = <<>> THEN all ELSE (ex[k] :> paths) @@ all)

\* the loop over the extracellular species ex, from position k on:
\* all_unbounded_paths[ex_specie.id] = paths
RECURSIVE PathBoundsLoop(_, _, _, _, _, _)
PathBoundsLoop(g, fb, ex, k, targets, all) ==
    IF k > Len(ex) THEN all
    ELSE LET paths == unbounded_paths_of(g, fb, Species(ex[k]), targets)
         IN  PathBoundsLoop(g, fb, ex, k + 1, targets, (ex[k] :> paths) @@ all)

\* a made network with objective species, flux bounds and compartments; the
\* species of the objective are not extracellular
InitPathBounds ==
    /\ submodel \in MadeSubmodels
    /\ network = [type |-> "any", num_rxn |-> 0, reversible |-> FALSE, removed |-> 0]
    /\ flux_bounds \in [RxnIds(submodel) -> FluxBoundValues]
    /\ compartment \in [SubmodelSpecies(submodel) -> CompartmentIds]
    /\ \A s \in submodel.obj : compartment[s] # "e"
    /\ runner = NoRunner
    /\ InitLocals

PathBoundsAnalysis ==
    /\ pc = "idle"
    /\ pc' = "done"
    /\ op' = "path_bounds_analysis"
    /\ digraph' = get_digraph(submodel)
    /\ LET obj_fn == get_products(submodel)
           ex == SetToSeq({sp \in SubmodelSpecies(submodel) : compartment[sp] = "e"})
       IN  all_unbounded_paths' =
               PathBoundsLoop(digraph', flux_bounds, ex, 1, obj_fn, <<>>)
    /\ UNCHANGED <<submodel, network, gapsVars, inactive_arg, dead_end_arg, dead_end_ret,
                   inactive_ret, modelVars, ex_species, obj_fn_species, min_non_finite_ub,
                   of_i, unbounded_paths, enumerations, runner, raised>>

SpecPathBounds == InitPathBounds /\ [][PathBoundsAnalysis]_vars

\* ----------------------------------------------------- AnalysisRunner.run
\* the three kinds of analysis run() knows how to construct, in the order of
\* its issubclass tests
SupportedBases == <<"KnowledgeBaseAnalysis", "ModelAnalysis", "SimulationAnalysis">>

MaxClasses == 2

MaxAnalyses == 3

\* an analysis class: its __name__ and those of the three bases it derives from
\* (none: it derives from Analysis only, as the class of test_AnalysisRunner_error)
AnalysisClasses == [name : 1..MaxClasses, bases : SUBSET Range(SupportedBases)]

issubclass(cls, base) == base \in cls.bases

Unsupported(cls) == \A b \in Range(SupportedBases) : ~issubclass(cls, b)

\* the branch of the if/elif chain that constructs cls
ConstructedAs(cls) ==
    SupportedBases[CHOOSE b \in 1..Len(SupportedBases) :
        /\ issubclass(cls, SupportedBases[b])
        /\ \A a \in 1..(b - 1) : ~issubclass(cls, SupportedBases[a])]

InitRunner ==
    /\ submodel = [reactions |-> <<>>, obj |-> {}]
    /\ network = [type |-> "any", num_rxn |-> 0, reversible |-> FALSE, removed |-> 0]
    /\ flux_bounds = <<>>
    /\ compartment = <<>>
    /\ \E analyses \in SeqsUpTo(AnalysisClasses, MaxAnalyses), out_path \in BOOLEAN :
          runner = [NoRunner EXCEPT !.analyses = analyses, !.out_path = out_path]
    /\ InitLocals

\* run() is called: the for loop starts at the first class
RunnerStart ==
    /\ pc = "idle"
    /\ pc' = "run_for"
    /\ op' = "run"
    /\ runner' = [runner EXCEPT !.i = 1]
    /\ UNCHANGED <<submodel, network, gapsVars, callVars, modelVars, pathVars, raised>>

\* mutant: a class of no supported kind is skipped without an error
RunnerIterate_SkipUnsupported ==
    /\ pc = "run_for"
    /\ runner.i <= Len(runner.analyses)
    /\ LET analysis_cls == runner.analyses[runner.i]
       IN  IF Unsupported(analysis_cls)
           THEN runner' = [runner EXCEPT !.i = @ + 1]
           ELSE runner' = [runner EXCEPT
                    !.constructed = Append(@, [cls |-> analysis_cls,
                                               as |-> ConstructedAs(analysis_cls)]),
                    !.dirs = IF runner.out_path THEN @ \cup {analysis_cls.name} ELSE @,
                    !.ran = Append(@, analysis_cls),
                    !.i = @ + 1]
    /\ UNCHANGED <<submodel, network, pc, op, gapsVars, callVars, modelVars, pathVars,
                   raised>>

\* one pass of the for loop: construct the analysis (its constructor makes the
\* output directory when the runner has an out_path) and run it, or raise
RunnerIterate ==
    /\ pc = "run_for"
    /\ runner.i <= Len(runner.analyses)
    /\ LET analysis_cls == runner.analyses[runner.i]
       IN  IF Unsupported(analysis_cls)
           THEN /\ raised' = ValueError(analysis_cls.name)
                /\ pc' = "raised"
                /\ UNCHANGED runner
           ELSE /\ runner' = [runner EXCEPT
                       !.constructed = Append(@, [cls |-> analysis_cls,
                                                  as |-> ConstructedAs(analysis_cls)]),
                       !.dirs = IF runner.out_path THEN @ \cup {analysis_cls.name} ELSE @,
                       !.ran = Append(@, analysis_cls),
                       !.i = @ + 1]
                /\ UNCHANGED <<pc, raised>>
    /\ UNCHANGED <<submodel, network, op, gapsVars, callVars, modelVars, pathVars>>

\* the list is exhausted: run() returns
RunnerReturn ==
    /\ pc = "run_for"
    /\ runner.i > Len(runner.analyses)
    /\ pc' = "done"
    /\ UNCHANGED <<submodel, network, op, gapsVars, callVars, modelVars, pathVars,
                   runner, raised>>

NextRunner == RunnerStart \/ RunnerIterate \/ RunnerReturn

SpecRunner == InitRunner /\ [][NextRunner]_vars

\* ================================================================== claims
NumSpecies == Cardinality(SubmodelSpecies(submodel))

Returned == op = "get_rxn_gaps" /\ pc = "done"

\* C1: between two consecutive executions of the loop body of get_rxn_gaps the
\* not-consumed set, the not-produced set and the inactive reactions (as a set)
\* only grow: each contains what the earlier iteration computed.
C1_Monotone ==
    [][(iterations >= 1 /\ iterations' = iterations + 1) =>
          /\ all_dead_end_species[1] \subseteq all_dead_end_species'[1]
          /\ all_dead_end_species[2] \subseteq all_dead_end_species'[2]
          /\ Range(inactive_reactions) \subseteq Range(inactive_reactions')]_vars

\* a second iteration that found new dead end species
C1_Witness ==
    /\ op = "get_rxn_gaps"
    /\ iterations >= 2
    /\ any(delta_dead_end_species)

\* C2: get_rxn_gaps, once called, leaves its loop and returns.
C2_Terminates == <>(pc = "done")

\* a returned call on a submodel that mixes reversible and irreversible reactions
\* and that needed the loop
C2_Witness ==
    /\ Returned
    /\ iterations >= 2
    /\ \E i, j \in DOMAIN submodel.reactions :
          submodel.reactions[i].reversible /\ ~submodel.reactions[j].reversible

\* C3 as stated: the loop body runs at most |S| times.
C3_AtMostNumSpecies == op = "get_rxn_gaps" => iterations <= NumSpecies

\* C3 amended: the loop body runs at most |S| + 1 times (the last execution is the
\* one that finds nothing new).
C3_AtMostNumSpeciesPlusOne == op = "get_rxn_gaps" => iterations <= NumSpecies + 1

\* a returned call that used all |S| + 1 executions, on more than one species
C3_Witness ==
    /\ Returned
    /\ NumSpecies >= 2
    /\ iterations = NumSpecies + 1

\* the cap of the counter is never what stops the loop
CapNotReached == iterations < MaxIterations

\* --------------------------------------------- the operations, one by one
ActiveReactions(sm, inactive) == {r \in Range(sm.reactions) : r.id \notin inactive}

Consumes(r, s) ==
    \/ r.reversible /\ s \in PartSpecies(r)
    \/ ~r.reversible /\ \E k \in DOMAIN r.participants :
           r.participants[k].species = s /\ r.participants[k].coefficient < 0

Produces(r, s) ==
    \/ r.reversible /\ s \in PartSpecies(r)
    \/ ~r.reversible /\ \E k \in DOMAIN r.participants :
           r.participants[k].species = s /\ r.participants[k].coefficient > 0

\* the network without the reactions of `inactive`, all its species kept
WithoutReactions(sm, inactive) ==
    [reactions |-> SelectSeq(sm.reactions, LAMBDA r : r.id \notin inactive),
     obj |-> SubmodelSpecies(sm)]

\* C4: get_dead_end_species(submodel, inactive) is exactly (the species no active
\* reaction consumes, the species no active reaction produces), a reversible
\* reaction doing both for each of its participants; and it equals the result on
\* the network without the inactive reactions but with the same species.
C4_DeadEndExact ==
    op = "get_dead_end_species" =>
        /\ dead_end_ret[1] =
               {s \in SubmodelSpecies(submodel) :
                    ~\E r \in ActiveReactions(submodel, inactive_arg) : Consumes(r, s)}
        /\ dead_end_ret[2] =
               {s \in SubmodelSpecies(submodel) :
                    ~\E r \in ActiveReactions(submodel, inactive_arg) : Produces(r, s)}
        /\ dead_end_ret =
               get_dead_end_species(WithoutReactions(submodel, inactive_arg), {})

\* a call where marking a reaction of the submodel inactive changes the result,
\* another reaction with participants stays active, and the two result sets are
\* non-empty and differ
C4_Witness ==
    /\ op = "get_dead_end_species"
    /\ inactive_arg \cap RxnIds(submodel) # {}
    /\ \E r \in ActiveReactions(submodel, inactive_arg) : r.participants # <<>>
    /\ dead_end_ret # get_dead_end_species(submodel, {})
    /\ dead_end_ret[1] # {}
    /\ dead_end_ret[2] # {}
    /\ dead_end_ret[1] # dead_end_ret[2]

Touches(r, dead) == PartSpecies(r) \cap (dead[1] \cup dead[2]) # {}

Position(sm, id) == CHOOSE i \in DOMAIN sm.reactions : sm.reactions[i].id = id

\* C5: get_inactive_rxns returns the reactions with a participant species in either
\* set, whatever the sign or the reversibility, each once and in submodel reaction
\* order; nothing when both sets are empty.
C5_InactiveExact ==
    op = "get_inactive_rxns" =>
        /\ Range(inactive_ret) =
               {r.id : r \in {x \in Range(submodel.reactions) : Touches(x, dead_end_arg)}}
        /\ \A a, b \in DOMAIN inactive_ret :
               a < b => Position(submodel, inactive_ret[a]) < Position(submodel, inactive_ret[b])
        /\ (dead_end_arg = <<{}, {}>> => inactive_ret = <<>>)

\* a call that returns two reactions, one of them with two participants in the
\* dead end sets, and leaves a reaction out
C5_Witness ==
    /\ op = "get_inactive_rxns"
    /\ Len(inactive_ret) >= 2
    /\ Len(inactive_ret) < Len(submodel.reactions)
    /\ \E id \in Range(inactive_ret) :
          LET r == RxnById(submodel, id)
          IN  /\ Len(r.participants) >= 2
              /\ \A k \in DOMAIN r.participants :
                     r.participants[k].species \in dead_end_arg[1] \cup dead_end_arg[2]

Kind(node) == node[1]

\* the edges the participants of r give, read forwards
ForwardEdgeSet(r) ==
    {<<SpeciesNode(r.participants[k].species), ReactionNode(r.id)>> :
        k \in {j \in DOMAIN r.participants : r.participants[j].coefficient < 0}}
    \cup
    {<<ReactionNode(r.id), SpeciesNode(r.participants[k].species)>> :
        k \in {j \in DOMAIN r.participants : r.participants[j].coefficient > 0}}

Mirror(edges) == {<<e[2], e[1]>> : e \in edges}

\* C10: get_digraph has the species and the reactions as nodes; its edges are
\* species -> reaction for a negative coefficient, reaction -> species for a
\* positive one, and the mirror of both for a reversible reaction. Every edge joins
\* a species and a reaction, and a non-zero participant of a reversible reaction
\* has both edges.
C10_DigraphEdges ==
    op = "get_digraph" =>
        /\ digraph.nodes = {SpeciesNode(s) : s \in SubmodelSpecies(submodel)}
                           \cup {ReactionNode(id) : id \in RxnIds(submodel)}
        /\ digraph.edges =
               UNION {IF r.reversible
                      THEN ForwardEdgeSet(r) \cup Mirror(ForwardEdgeSet(r))
                      ELSE ForwardEdgeSet(r) : r \in Range(submodel.reactions)}
        /\ \A e \in digraph.edges : Kind(e[1]) # Kind(e[2])
        /\ \A r \in Range(submodel.reactions) : \A k \in DOMAIN r.participants :
               (r.reversible /\ r.participants[k].coefficient # 0) =>
                   /\ <<SpeciesNode(r.participants[k].species), ReactionNode(r.id)>>
                          \in digraph.edges
                   /\ <<ReactionNode(r.id), SpeciesNode(r.participants[k].species)>>
                          \in digraph.edges

\* a graph of a reversible and an irreversible reaction, with a reactant, a product
\* and a participant of coefficient zero that gets no edge
C10_Witness ==
    /\ op = "get_digraph"
    /\ \E r1, r2 \in Range(submodel.reactions) :
          /\ r1.reversible /\ ~r2.reversible
          /\ ForwardEdgeSet(r1) # {} /\ ForwardEdgeSet(r2) # {}
          /\ \E k \in DOMAIN r2.participants :
                /\ r2.participants[k].coefficient = 0
                /\ \A e \in digraph.edges :
                       SpeciesNode(r2.participants[k].species) \notin {e[1], e[2]}
    /\ \E e \in digraph.edges : <<e[2], e[1]>> \notin digraph.edges

\* ------------------------------------------------------- the ring networks
\* reaction k of a ring consumes species k and produces species RingNext(k)
RingNext(k) == (k % network.num_rxn) + 1

RingPrev(k) == ((k + network.num_rxn - 2) % network.num_rxn) + 1

IrreversibleRing == network.type = "ring" /\ ~network.reversible

ReversibleRing == network.type = "ring" /\ network.reversible

\* the pair get_dead_end_species gives for a ring broken at reaction k
BreakPair(k) == <<{k}, {RingNext(k)}>>

\* C6: a whole ring of N >= 1 irreversible reactions has no dead end species, and
\* get_rxn_gaps returns empty sets and no inactive reaction without running its
\* loop body.
C6_RingNoGap ==
    (IrreversibleRing /\ network.removed = 0) =>
        /\ (op = "get_dead_end_species" /\ inactive_arg = {}) => dead_end_ret = <<{}, {}>>
        /\ Returned =>
               /\ all_dead_end_species = <<{}, {}>>
               /\ Len(inactive_reactions) = 0
               /\ iterations = 0

\* get_rxn_gaps has returned on a whole irreversible ring of four or more reactions
C6_Witness ==
    /\ IrreversibleRing
    /\ network.removed = 0
    /\ network.num_rxn >= 4
    /\ Returned

\* what C7 says of get_dead_end_species: in an irreversible ring of N >= 3 with
\* reaction k removed, or marked inactive, the reactant of k alone is not consumed
\* and its product alone is not produced
C7_DeadEndOfBreak ==
    /\ (network.removed >= 1 /\ inactive_arg \cap RxnIds(submodel) = {}) =>
           dead_end_ret = BreakPair(network.removed)
    /\ \A k \in 1..network.num_rxn :
           (network.removed = 0 /\ inactive_arg = {k}) => dead_end_ret = BreakPair(k)

\* C7 as stated: ... and get_inactive_rxns applied to that pair returns exactly the
\* two ring neighbours of the reaction, whether it was removed or marked inactive.
C7_TwoNeighbours ==
    (IrreversibleRing /\ network.num_rxn >= 3) =>
        /\ op = "get_dead_end_species" => C7_DeadEndOfBreak
        /\ op = "get_inactive_rxns" =>
               \A k \in 1..network.num_rxn :
                   (network.removed \in {0, k} /\ dead_end_arg = BreakPair(k)) =>
                       /\ Len(inactive_ret) = 2
                       /\ Range(inactive_ret) = {RingPrev(k), RingNext(k)}

\* C7 amended: get_inactive_rxns applied to that pair returns exactly the two ring
\* neighbours when the reaction was removed; when it is only marked inactive it is
\* still in the submodel and is returned too, between its neighbours: 3 reactions.
C7_TwoNeighboursWhenRemoved ==
    (IrreversibleRing /\ network.num_rxn >= 3) =>
        /\ op = "get_dead_end_species" => C7_DeadEndOfBreak
        /\ op = "get_inactive_rxns" =>
               \A k \in 1..network.num_rxn :
                   /\ (network.removed = k /\ dead_end_arg = BreakPair(k)) =>
                          /\ Len(inactive_ret) = 2
                          /\ Range(inactive_ret) = {RingPrev(k), RingNext(k)}
                   /\ (network.removed = 0 /\ dead_end_arg = BreakPair(k)) =>
                          /\ Len(inactive_ret) = 3
                          /\ Range(inactive_ret) = {RingPrev(k), k, RingNext(k)}

\* get_inactive_rxns called with the dead end pair of a ring of four or more
\* reactions one of which was removed
C7_Witness ==
    /\ IrreversibleRing
    /\ network.num_rxn >= 4
    /\ network.removed >= 1
    /\ op = "get_inactive_rxns"
    /\ dead_end_arg = BreakPair(network.removed)
    /\ dead_end_arg = get_dead_end_species(submodel, {})
    /\ Len(inactive_ret) = 2

\* C8: in an irreversible ring of N >= 2 with one reaction removed, get_rxn_gaps
\* returns all N species as not consumed and as not produced, and the N-1
\* remaining reactions as inactive.
C8_Cascade ==
    (IrreversibleRing /\ network.num_rxn >= 2 /\ network.removed >= 1 /\ Returned) =>
        /\ all_dead_end_species = <<1..network.num_rxn, 1..network.num_rxn>>
        /\ Range(inactive_reactions) = (1..network.num_rxn) \ {network.removed}

\* the test's case, or a larger one: the cascade needed several loop iterations
C8_Witness ==
    /\ IrreversibleRing
    /\ network.num_rxn >= 4
    /\ network.removed >= 1
    /\ Returned
    /\ iterations >= 3

\* C9: in a ring of N >= 2 reversible reactions with one removed no species is a
\* dead end, and get_rxn_gaps returns empty sets and no inactive reaction.
C9_ReversibleRecovery ==
    (ReversibleRing /\ network.num_rxn >= 2 /\ network.removed >= 1) =>
        /\ (op = "get_dead_end_species" /\ inactive_arg \cap RxnIds(submodel) = {}) =>
               dead_end_ret = <<{}, {}>>
        /\ Returned =>
               /\ all_dead_end_species = <<{}, {}>>
               /\ Len(inactive_reactions) = 0

\* get_dead_end_species called with no inactive reaction on a reversible ring of
\* three or more reactions from which one was removed
C9_Witness ==
    /\ ReversibleRing
    /\ network.num_rxn >= 3
    /\ network.removed >= 1
    /\ op = "get_dead_end_species"
    /\ inactive_arg = {}

\* ------------------------------------------- the result of get_rxn_gaps
\* C19: the pair D of dead end sets and the inactive reactions I that
\* get_rxn_gaps returns are consistent with each other: I is, as a set, what
\* get_inactive_rxns gives for D, D is what get_dead_end_species gives for I, and
\* no reaction outside I has a participant in either set of D. This includes
\* the call whose loop never runs.
C19_FixedPoint ==
    Returned =>
       LET D == all_dead_end_species
           I == Range(inactive_reactions)
       IN  /\ I = Range(get_inactive_rxns(submodel, D))
           /\ D = get_dead_end_species(submodel, I)
           /\ \A r \in Range(submodel.reactions) :
                  r.id \notin I => PartSpecies(r) \cap (D[1] \cup D[2]) = {}

\* a returned call that needed the loop and left a reaction active
C19_Witness ==
    /\ Returned
    /\ iterations >= 2
    /\ inactive_reactions # <<>>
    /\ Range(inactive_reactions) # RxnIds(submodel)

\* a returned call whose loop never ran
C19_WitnessNoLoop ==
    /\ Returned
    /\ iterations = 0
    /\ submodel.reactions # <<>>

\* C20: the not-consumed set and the not-produced set that get_rxn_gaps returns
\* are the same set, and each of its species takes part only in returned
\* inactive reactions.
C20_SetsCoincide ==
    Returned =>
       /\ all_dead_end_species[1] = all_dead_end_species[2]
       /\ \A s \in all_dead_end_species[1], r \in Range(submodel.reactions) :
              s \in PartSpecies(r) => r.id \in Range(inactive_reactions)

\* a returned call with dead end species, whose first get_dead_end_species call
\* gave two different sets
C20_Witness ==
    /\ Returned
    /\ all_dead_end_species[1] # {}
    /\ LET first == get_dead_end_species(submodel, {})
       IN  first[1] # first[2]

\* ---------------------------------------------- the digraph of a ring
WholeRingDigraph == network.type = "ring" /\ network.removed = 0 /\ op = "get_digraph"

SpeciesToReaction(g) == {e \in g.edges : e[1][1] = "Species" /\ e[2][1] = "Reaction"}

ReactionToSpecies(g) == {e \in g.edges : e[1][1] = "Reaction" /\ e[2][1] = "Species"}

\* C11 as stated: the digraph of a whole irreversible ring of N >= 1 reactions
\* has exactly 2N edges, N from a species to a reaction and N from a reaction to
\* a species, and the digraph of a whole reversible ring has exactly 4N edges.
C11_RingEdgeCount ==
    WholeRingDigraph =>
       IF network.reversible
       THEN Cardinality(digraph.edges) = 4 * network.num_rxn
       ELSE /\ Cardinality(digraph.edges) = 2 * network.num_rxn
            /\ Cardinality(SpeciesToReaction(digraph)) = network.num_rxn
            /\ Cardinality(ReactionToSpecies(digraph)) = network.num_rxn

\* C11 amended: the reversible count 4N holds from N = 2 on; the reversible ring
\* of one reaction, whose reactant is its product, has 2 edges.
C11_RingEdgeCountFromTwo ==
    WholeRingDigraph =>
       IF network.reversible
       THEN Cardinality(digraph.edges) =
                IF network.num_rxn = 1 THEN 2 ELSE 4 * network.num_rxn
       ELSE /\ Cardinality(digraph.edges) = 2 * network.num_rxn
            /\ Cardinality(SpeciesToReaction(digraph)) = network.num_rxn
            /\ Cardinality(ReactionToSpecies(digraph)) = network.num_rxn

\* the digraph of the whole reversible ring of the test's size
C11_Witness ==
    /\ WholeRingDigraph
    /\ network.reversible
    /\ network.num_rxn = MaxRing
    /\ Cardinality(digraph.edges) = 4 * MaxRing

\* ------------------------------------------------------ AnalysisRunner.run
\* the first k classes of the runner's list
FirstClasses(k) == SubSeq(runner.analyses, 1, k)

\* C18: run() takes the classes in list order. When it reaches a class that
\* derives from none of KnowledgeBaseAnalysis, ModelAnalysis, SimulationAnalysis
\* it raises a ValueError naming that class; neither that class nor any later
\* one has been constructed or run, and every earlier class has been constructed
\* and run. It returns only when no class of the list is such a class.
C18_RunnerOrder ==
    op = "run" =>
       /\ pc \in {"run_for", "raised", "done"}
       /\ runner.ran = FirstClasses(runner.i - 1)
       /\ [k \in DOMAIN runner.constructed |-> runner.constructed[k].cls] = runner.ran
       /\ \A k \in 1..(runner.i - 1) : ~Unsupported(runner.analyses[k])
       /\ pc = "raised" =>
              /\ runner.i <= Len(runner.analyses)
              /\ Unsupported(runner.analyses[runner.i])
              /\ raised = ValueError(runner.analyses[runner.i].name)
       /\ pc = "done" => runner.ran = runner.analyses /\ raised = NoException

\* the error is raised at a class that has supported classes before and after it
C18_Witness ==
    /\ op = "run"
    /\ pc = "raised"
    /\ runner.i = 2
    /\ Len(runner.analyses) = 3
    /\ ~Unsupported(runner.analyses[3])
    /\ runner.analyses[1].name # runner.analyses[2].name
    /\ Len(runner.ran) = 1

\* ---------------------------------------------------------- unbounded_paths
PathsReturned == op = "unbounded_paths" /\ pc = "done"

\* the simple paths of n nodes that start at node s: walks along the edges of g
\* that enter no node twice
RECURSIVE SimplePathsOfLen(_, _, _)
SimplePathsOfLen(g, s, n) ==
    IF n = 1 THEN {<<s>>}
    ELSE UNION {{Append(q, e[2]) :
                    e \in {d \in g.edges : d[1] = q[n - 1] /\ d[2] \notin Range(q)}} :
                q \in SimplePathsOfLen(g, s, n - 1)}

\* the simple paths from node s to another node t
SimplePaths(g, s, t) ==
    UNION {{q \in SimplePathsOfLen(g, s, n) : q[n] = t} : n \in 2..Cardinality(g.nodes)}

\* some reaction node of the path has flux bounds whose max is below ub
HasBoundBelow(path, ub) ==
    \E k \in DOMAIN path :
        /\ path[k][1] = "Reaction"
        /\ flux_bounds[path[k][2]].kind = "finite"
        /\ flux_bounds[path[k][2]].max < ub

\* what the call has to return for its k-th target
Expected(k) ==
    {q \in SimplePaths(digraph, SpeciesNode(ex_species.id),
                       SpeciesNode(obj_fn_species[k].id)) :
        ~HasBoundBelow(q, min_non_finite_ub)}

\* the number of paths expected for the targets before the k-th
RECURSIVE ExpectedBefore(_)
ExpectedBefore(k) ==
    IF k = 1 THEN 0 ELSE ExpectedBefore(k - 1) + Cardinality(Expected(k - 1))

\* C12: unbounded_paths returns, target after target in the order of the target
\* list, all the simple paths from the source to the target on which no reaction
\* has flux bounds with a max strictly below min_non_finite_ub, and nothing else;
\* a reaction without flux bounds or with a max at or above the threshold does
\* not bound a path, and species nodes play no part.
C12_AllUnboundedPaths ==
    PathsReturned =>
       /\ Len(unbounded_paths) = ExpectedBefore(Len(obj_fn_species) + 1)
       /\ \A k \in DOMAIN obj_fn_species :
              {unbounded_paths[j] :
                  j \in (ExpectedBefore(k) + 1)..ExpectedBefore(k + 1)} = Expected(k)

\* a call with two different targets that can both be reached: a simple path to
\* one of them is left out as bounded, and a path is returned that goes through
\* a reaction without flux bounds or with a max at the threshold
C12_Witness ==
    /\ PathsReturned
    /\ Len(obj_fn_species) = 2
    /\ obj_fn_species[1] # obj_fn_species[2]
    /\ \A k \in 1..2 : SimplePaths(digraph, SpeciesNode(ex_species.id),
                                    SpeciesNode(obj_fn_species[k].id)) # {}
    /\ \E k \in 1..2 :
          Expected(k) # SimplePaths(digraph, SpeciesNode(ex_species.id),
                                    SpeciesNode(obj_fn_species[k].id))
    /\ \E j \in DOMAIN unbounded_paths : \E i \in DOMAIN unbounded_paths[j] :
          /\ unbounded_paths[j][i][1] = "Reaction"
          /\ flux_bounds[unbounded_paths[j][i][2]] \in {NoFluxBounds, Finite(min_non_finite_ub)}

\* C17: every path unbounded_paths returns (the source is none of the targets)
\* is simple, has an odd number 2k + 1 of nodes with k >= 1, alternates species
\* (first, third, ... node) and reactions (second, fourth, ... node), starts at
\* the source, ends at an element of the target list, and each two consecutive
\* nodes are an edge of the graph.
C17_WellFormedPaths ==
    op = "unbounded_paths" =>
       \A j \in DOMAIN unbounded_paths :
          LET path == unbounded_paths[j]
          IN  /\ \A a, b \in DOMAIN path : path[a] = path[b] => a = b
              /\ Len(path) >= 3
              /\ Len(path) % 2 = 1
              /\ \A a \in DOMAIN path :
                     path[a][1] = IF a % 2 = 1 THEN "Species" ELSE "Reaction"
              /\ path[1] = SpeciesNode(ex_species.id)
              /\ \E k \in DOMAIN obj_fn_species :
                     /\ isinstance_Species(obj_fn_species[k])
                     /\ path[Len(path)] = SpeciesNode(obj_fn_species[k].id)
              /\ \A a \in 1..(Len(path) - 1) : <<path[a], path[a + 1]>> \in digraph.edges

\* a returned path through two reactions, in a graph where a node left behind
\* could be entered again
C17_Witness ==
    /\ PathsReturned
    /\ \E j \in DOMAIN unbounded_paths :
          LET path == unbounded_paths[j]
          IN  /\ Len(path) = 5
              /\ <<path[2], path[1]>> \in digraph.edges

\* ------------------------------------------------ unbounded paths of a ring
\* every reaction of the network has max_flux infinity
AllInfinite == \A id \in DOMAIN flux_bounds : flux_bounds[id] = Infinite

\* every reaction has the finite max_flux B and the threshold is B + 1
AllFiniteBelowThreshold ==
    /\ \A id \in DOMAIN flux_bounds : flux_bounds[id] = Finite(default_max_flux)
    /\ min_non_finite_ub = default_max_flux + 1

\* a returned call on a ring from its first species to the single target t
RingPathsReturned(t) ==
    /\ PathsReturned
    /\ network.type = "ring"
    /\ ex_species = Species(1)
    /\ obj_fn_species = <<Species(t)>>

\* C13: on an irreversible ring of N >= 2 reactions, from species 1 to species
\* N: with all bounds infinite and the default threshold exactly one path, of
\* 2N - 1 nodes, is returned; with every bound the finite B and the threshold
\* B + 1 no path is returned.
C13_IrreversibleRingPaths ==
    (/\ RingPathsReturned(network.num_rxn)
     /\ ~network.reversible
     /\ network.num_rxn >= 2) =>
       /\ (AllInfinite /\ min_non_finite_ub = DefaultMinNonFiniteUb) =>
              /\ Len(unbounded_paths) = 1
              /\ Len(unbounded_paths[1]) = 2 * network.num_rxn - 1
       /\ AllFiniteBelowThreshold => Len(unbounded_paths) = 0

\* the one path around the largest irreversible ring
C13_Witness ==
    /\ RingPathsReturned(MaxRing)
    /\ ~network.reversible
    /\ network.num_rxn = MaxRing
    /\ AllInfinite
    /\ min_non_finite_ub = DefaultMinNonFiniteUb
    /\ Len(unbounded_paths) = 1

\* the same call with finite bounds below the threshold
C13_WitnessFinite ==
    /\ RingPathsReturned(MaxRing)
    /\ ~network.reversible
    /\ network.num_rxn = MaxRing
    /\ AllFiniteBelowThreshold
    /\ unbounded_paths = <<>>

\* C14: on a reversible ring of an even number N >= 2 of reactions, from the
\* first species to the species N/2 reactions away: with all bounds infinite
\* exactly two paths, each of N + 1 nodes, are returned; with every bound finite
\* and the threshold above it no path is returned.
C14_ReversibleRingPaths ==
    (/\ RingPathsReturned(network.num_rxn \div 2 + 1)
     /\ network.reversible
     /\ network.num_rxn >= 2
     /\ network.num_rxn % 2 = 0) =>
       /\ (AllInfinite /\ min_non_finite_ub = DefaultMinNonFiniteUb) =>
              /\ Len(unbounded_paths) = 2
              /\ unbounded_paths[1] # unbounded_paths[2]
              /\ \A j \in 1..2 : Len(unbounded_paths[j]) = network.num_rxn + 1
       /\ AllFiniteBelowThreshold => Len(unbounded_paths) = 0

\* the two ways around a reversible ring of four reactions
C14_Witness ==
    /\ network.num_rxn = 4
    /\ network.reversible
    /\ RingPathsReturned(3)
    /\ AllInfinite
    /\ min_non_finite_ub = DefaultMinNonFiniteUb
    /\ Len(unbounded_paths) = 2

\* ------------------------------------------- arguments that are no Species
PathsRaised == op = "unbounded_paths" /\ pc = "raised"

\* the first argument value, source first, that is no Species
Offending ==
    IF ~isinstance_Species(ex_species) THEN ex_species
    ELSE obj_fn_species[CHOOSE k \in DOMAIN obj_fn_species :
             /\ ~isinstance_Species(obj_fn_species[k])
             /\ \A j \in 1..(k - 1) : isinstance_Species(obj_fn_species[j])]

AllSpecies ==
    /\ isinstance_Species(ex_species)
    /\ \A k \in DOMAIN obj_fn_species : isinstance_Species(obj_fn_species[k])

\* C15: a call of unbounded_paths whose source is no Species, or whose target
\* list has an element that is no Species at any position, raises a ValueError
\* that names the type of that value, before any path enumeration has been
\* performed, and returns no paths.
C15_FailsBeforeEnumeration ==
    /\ PathsReturned => AllSpecies
    /\ PathsRaised =>
          /\ ~AllSpecies
          /\ raised = ValueError(Offending.type)
          /\ enumerations = 0

\* C15 amended: the call does not return, the error names the type of the first
\* offending value, and the paths to the targets before that value have been
\* enumerated by then: none when the source or the first target offends.
C15_FailsNamingType ==
    /\ PathsReturned => AllSpecies
    /\ PathsRaised =>
          /\ ~AllSpecies
          /\ raised = ValueError(Offending.type)
          /\ enumerations = IF isinstance_Species(ex_species) THEN of_i - 1 ELSE 0
          /\ isinstance_Species(ex_species) => Offending = obj_fn_species[of_i]

\* the error is raised for the second target, after paths to the first were found
C15_Witness ==
    /\ PathsRaised
    /\ of_i = 2
    /\ unbounded_paths # <<>>

\* ------------------------------------------------------ path_bounds_analysis
PathBoundsReturned == op = "path_bounds_analysis" /\ pc = "done"

Extracellular == {sp \in SubmodelSpecies(submodel) : compartment[sp] = "e"}

\* the unbounded simple paths from species sp to objective species t
UnboundedTo(sp, t) ==
    {q \in SimplePaths(digraph, SpeciesNode(sp), SpeciesNode(t)) :
        ~HasBoundBelow(q, DefaultMinNonFiniteUb)}

\* the number of unbounded simple paths from sp to the targets of T, target by target
RECURSIVE UnboundedCount(_, _)
UnboundedCount(sp, T) ==
    IF T = {} THEN 0
    ELSE LET t == CHOOSE y \in T : TRUE
         IN  Cardinality(UnboundedTo(sp, t)) + UnboundedCount(sp, T \ {t})

\* C16: path_bounds_analysis returns a mapping whose keys are exactly the ids of
\* the submodel's extracellular species; each maps to the unbounded paths from
\* that species to the species of the objective, a species without such a path
\* to an empty list; when every reaction has a bound below the threshold every
\* value is empty.
C16_PathBoundsMapping ==
    PathBoundsReturned =>
       /\ DOMAIN all_unbounded_paths = Extracellular
       /\ \A sp \in Extracellular :
              LET paths == all_unbounded_paths[sp]
              IN  /\ Range(paths) = UNION {UnboundedTo(sp, t) : t \in submodel.obj}
                  /\ Len(paths) = UnboundedCount(sp, submodel.obj)
       /\ (\A id \in DOMAIN flux_bounds :
               flux_bounds[id].kind = "finite"
               /\ flux_bounds[id].max < DefaultMinNonFiniteUb)
           => \A sp \in Extracellular : all_unbounded_paths[sp] = <<>>

\* two extracellular species, one with an unbounded path to the objective and one
\* with none
C16_Witness ==
    /\ PathBoundsReturned
    /\ \E a, b \in DOMAIN all_unbounded_paths :
          /\ all_unbounded_paths[a] # <<>>
          /\ all_unbounded_paths[b] = <<>>

\* every reaction bounded below the threshold, paths existing in the graph
C16_WitnessBounded ==
    /\ PathBoundsReturned
    /\ \A id \in DOMAIN flux_bounds : flux_bounds[id] = Finite(0)
    /\ \E sp \in Extracellular, t \in submodel.obj :
          SimplePaths(digraph, SpeciesNode(sp), SpeciesNode(t)) # {}

====
